---- MODULE Spec2Model ----
(***************************************************************************)
(* crate-diff: a model of src/main.rs.  One run of the program is one      *)
(* behaviour: Init draws the command line and the registry contents, the   *)
(* actions are the steps of main() for the three subcommands.  External    *)
(* collaborators (registry index, network, tar, diff, the filesystem) are  *)
(* modelled at their interface, their failures as nondeterministic         *)
(* outcomes.  Text is modelled down to characters: a line is a sequence of *)
(* one-character strings, a file or an output is a sequence of lines.      *)
(***************************************************************************)
EXTENDS Naturals, Sequences, FiniteSets

\* Longest dependency list a registry version carries in the model.
MaxDeps == 2

\* .skip(3) on the lines of the diff utility's output.
SkipCount == 3

-----------------------------------------------------------------------------
(* Text helpers *)

EmptyLine == << >>

\* Byte order of the characters that occur in dependency names.
Ord(c) == CASE c = "a" -> 1 [] c = "b" -> 2 [] OTHER -> 0

RECURSIVE StrLess(_, _)
\* Ord for str: bytewise lexicographic, a proper prefix sorts first.
StrLess(s, t) ==
    IF t = << >> THEN FALSE
    ELSE IF s = << >> THEN TRUE
    ELSE IF Head(s) = Head(t) THEN StrLess(Tail(s), Tail(t))
    ELSE Ord(Head(s)) < Ord(Head(t))

IsPrefix(p, s) == Len(p) <= Len(s) /\ SubSeq(s, 1, Len(p)) = p

\* Iterator::skip(n) on a sequence.
Skip(s, n) == IF Len(s) <= n THEN << >> ELSE SubSeq(s, n + 1, Len(s))

\* println!("{}", lines.join("\n")): the joined text and one newline.
\* Joining no lines gives the empty string, so one empty line is printed.
Println(lines) == IF lines = << >> THEN << EmptyLine >> ELSE lines

\* format!("+{:#?}", d).lines().collect().join("\n+"): every line prefixed.
PrefixLines(c, lines) == [i \in 1..Len(lines) |-> <<c>> \o lines[i]]

-----------------------------------------------------------------------------
(* Command line and registry *)

CrateName == <<"k">>

V10 == <<"1", ".", "0">>
V20 == <<"2", ".", "0">>
VersionSeq == << V10, V20 >>
Versions == {V10, V20}

Cmds == {"versions", "diff", "deps"}

\* The (v1, v2) argument pairs tried.
ArgPairs == { <<V10, V20>>, <<V20, V20>> }

NameA == <<"a">>
NameAB == <<"a", "b">>
NameB == <<"b">>

Req1 == <<"^", "1">>
Req1Ws == <<"^", " ", "1">>
Req2 == <<"^", "2">>

Dep(n, r, k) == [name |-> n, req |-> r, kind |-> k]

\* The dependency records a registry version may list.
Records ==
    { Dep(NameA, Req1, "Normal"), Dep(NameA, Req1Ws, "Normal"),
      Dep(NameA, Req2, "Normal"), Dep(NameA, Req1Ws, "Dev"),
      Dep(NameAB, Req1, "Normal"), Dep(NameB, Req1, "Normal") }

Lists == UNION { [1..n -> Records] : n \in 0..MaxDeps }

\* index.crate_(name): None, or the crate with its versions.
NoCrate == [found |-> FALSE, versions |-> << >>]

Entry(v, y, d) == [version |-> v, yanked |-> y, deps |-> d]

\* krate.versions(): the entries of the versions in `present`, index order.
VersionsOf(present, yank, deps) ==
    LET all == [i \in 1..Len(VersionSeq) |->
                   Entry(VersionSeq[i], yank[VersionSeq[i]], deps[VersionSeq[i]])]
        In(e) == e.version \in present
    IN SelectSeq(all, In)

\* Registry contents tried for a command line.  Dependency lists vary only
\* where `deps` reads them, yanked flags only where `versions` reads them.
YankChoices(c, present) ==
    { y \in [Versions -> BOOLEAN] :
        \A v \in Versions : y[v] => (c = "versions" /\ v \in present) }

ListChoices(c, a1, a2, present, v) ==
    IF c = "deps" /\ v \in present /\ v \in {a1, a2} THEN Lists ELSE { << >> }

-----------------------------------------------------------------------------
(* Rendering and the diff utility *)

Indent == <<" ", " ", " ", " ">>

KindText(k) ==
    IF k = "Dev" THEN <<"D", "e", "v">>
    ELSE <<"N", "o", "r", "m", "a", "l">>

\* format!("{:#?}\n", d): derived pretty Debug of a Dependency, one field a line.
Render(d) ==
    << <<"D", "e", "p", "e", "n", "d", "e", "n", "c", "y", " ", "{">>,
       Indent \o <<"n", "a", "m", "e", ":", " ", "\"">> \o d.name \o <<"\"", ",">>,
       Indent \o <<"r", "e", "q", ":", " ", "\"">> \o d.req \o <<"\"", ",">>,
       Indent \o <<"k", "i", "n", "d", ":", " ">> \o KindText(d.kind) \o <<",">>,
       <<"}">> >>

\* format!("{}-{}", crate_name, version): a snapshot's file name.
PathOf(v) == CrateName \o <<"-">> \o v

NotSpace(c) == c # " "

\* diff -w: all white space in a line is ignored when comparing.
StripWs(line) == SelectSeq(line, NotSpace)

SameLineW(x, y) == StripWs(x) = StripWs(y)

RECURSIVE CommonPrefixLen(_, _)
CommonPrefixLen(f1, f2) ==
    IF f1 = << >> \/ f2 = << >> \/ ~SameLineW(Head(f1), Head(f2)) THEN 0
    ELSE 1 + CommonPrefixLen(Tail(f1), Tail(f2))

Reverse(s) == [i \in 1..Len(s) |-> s[Len(s) + 1 - i]]

\* The unified diff of two files whose changed lines are contiguous, with
\* context wide enough to show the whole file (--unified=1000): two file
\* headers, one hunk header, then unchanged lines (as in the old file)
\* prefixed " ", old lines "-", new lines "+".
UnifiedDiff(p1, p2, f1, f2) ==
    LET pre == CommonPrefixLen(f1, f2)
        r1 == Skip(f1, pre)
        r2 == Skip(f2, pre)
        suf == CommonPrefixLen(Reverse(r1), Reverse(r2))
        old == SubSeq(r1, 1, Len(r1) - suf)
        new == SubSeq(r2, 1, Len(r2) - suf)
    IN << <<"-", "-", "-", " ">> \o p1,
          <<"+", "+", "+", " ">> \o p2,
          <<"@", "@", " ", "-", "1", " ", "+", "1", " ", "@", "@">> >>
       \o PrefixLines(" ", SubSeq(f1, 1, pre))
       \o PrefixLines("-", old)
       \o PrefixLines("+", new)
       \o PrefixLines(" ", Skip(r1, Len(r1) - suf))

FilesSameW(f1, f2) ==
    Len(f1) = Len(f2) /\ \A i \in 1..Len(f1) : SameLineW(f1[i], f2[i])

\* `diff -w --unified=1000 p1 p2` when it completes its comparison:
\* status 0 and no output when the files agree, status 1 and the diff if not.
DiffW(p1, p2, f1, f2) ==
    IF FilesSameW(f1, f2) THEN [status |-> 0, stdout |-> << >>]
    ELSE [status |-> 1, stdout |-> UnifiedDiff(p1, p2, f1, f2)]

\* The utility's outcome on trouble (unreadable operand, ...): status 2,
\* the complaint goes to standard error.
DiffTrouble == [status |-> 2, stdout |-> << >>]

-----------------------------------------------------------------------------
(* Collections *)

\* .map(|d| d.name()).collect::<BTreeSet<_>>()
NamesOf(list) == { list[i].name : i \in 1..Len(list) }

LastIndex(list, n) ==
    CHOOSE i \in 1..Len(list) :
        /\ list[i].name = n
        /\ \A j \in 1..Len(list) : list[j].name = n => j <= i

\* .map(|d| (d.name(), d)).collect::<BTreeMap<_, _>>(): inserting a key
\* that is already present replaces its value, so the last record wins.
MapOf(list) == [n \in NamesOf(list) |-> list[LastIndex(list, n)]]

Least(S) == CHOOSE x \in S : \A y \in S : y = x \/ StrLess(x, y)

Greatest(S) == CHOOSE x \in S : \A y \in S : y = x \/ StrLess(y, x)

RECURSIVE Descending(_)
\* Ascending, had the comparison been reversed.
Descending(S) ==
    IF S = {} THEN << >>
    ELSE LET m == Greatest(S) IN <<m>> \o Descending(S \ {m})

RECURSIVE Ascending(_)
\* The order a BTreeSet's iterators yield its elements in.
Ascending(S) ==
    IF S = {} THEN << >>
    ELSE LET m == Least(S) IN <<m>> \o Ascending(S \ {m})

\* v1_deps.union(&v2_deps): each element of either set once, ascending.
UnionIter(s1, s2) == Ascending(s1 \cup s2)

\* Find, had a missing version fallen back to the first one listed.
FindOrFirst(versions, want) ==
    LET hits == { i \in 1..Len(versions) : versions[i].version = want }
    IN IF versions = << >> THEN << >>
       ELSE IF hits = {} THEN << versions[1] >>
       ELSE << versions[CHOOSE i \in hits : \A j \in hits : i <= j] >>

\* .find(|v| v.version() == want).cloned(): an Option, here a sequence of
\* no element or of the first matching entry.
Find(versions, want) ==
    LET hits == { i \in 1..Len(versions) : versions[i].version = want }
    IN IF hits = {} THEN << >>
       ELSE << versions[CHOOSE i \in hits : \A j \in hits : i <= j] >>

-----------------------------------------------------------------------------
(* State *)

VARIABLES
    cmd,        \* args.command
    v1, v2,     \* the version arguments of diff / deps
    krate,      \* the registry's entry for args.crate_name, or NoCrate
    pc,         \* position in main()
    v1_map, v2_map, v1_deps, v2_deps, added, removed,
    iter,       \* what v1_deps.union(&v2_deps) has still to yield
    dir,        \* the scratch directory: "none", "exists" or "removed"
    files,      \* the snapshot files in it: path -> lines
    stdout,     \* what was printed: a sequence of [dep, lines], one per println!
    exit,       \* "none" while running, then "ok" or "err"
    error,      \* the error main() returned
    diffLog,    \* the diff invocations that ran: [dep, status, stdout]
    branchLog,  \* the branch of the deps loop taken for each name
    rmFailed    \* removing the scratch directory was tried and failed

vars == << cmd, v1, v2, krate, pc, v1_map, v2_map, v1_deps, v2_deps, added,
           removed, iter, dir, files, stdout, exit, error, diffLog, branchLog,
           rmFailed >>

input == << cmd, v1, v2, krate >>
maps == << v1_map, v2_map, v1_deps, v2_deps, added, removed >>

NoDep == << >>
NoError == << >>

Init ==
    /\ cmd \in Cmds
    /\ \E a \in ArgPairs : v1 = a[1] /\ v2 = a[2]
    /\ \/ krate = NoCrate
       \/ \E present \in SUBSET Versions :
          \E yank \in YankChoices(cmd, present) :
            \E l1 \in ListChoices(cmd, v1, v2, present, V10),
               l2 \in ListChoices(cmd, v1, v2, present, V20) :
                krate = [found |-> TRUE,
                         versions |-> VersionsOf(present, yank,
                                         [v \in Versions |-> IF v = V10 THEN l1 ELSE l2])]
    /\ pc = "start"
    /\ v1_map = << >> /\ v2_map = << >>
    /\ v1_deps = {} /\ v2_deps = {}
    /\ added = {} /\ removed = {}
    /\ iter = << >>
    /\ dir = "none"
    /\ files = << >>
    /\ stdout = << >>
    /\ exit = "none"
    /\ error = NoError
    /\ diffLog = << >>
    /\ branchLog = << >>
    /\ rmFailed = FALSE

\* TempDir's destructor: removes the directory, ignoring a failure.
DropDir ==
    IF dir = "exists"
    THEN \E removedOk \in BOOLEAN :
            /\ dir' = IF removedOk THEN "removed" ELSE "exists"
            /\ rmFailed' = ~removedOk
    ELSE UNCHANGED << dir, rmFailed >>

\* Fail, had the error path kept the directory (no destructor run).
FailLeak(e) ==
    /\ exit' = "err"
    /\ error' = e
    /\ pc' = "exit"
    /\ UNCHANGED << dir, rmFailed >>

\* Fail, had the error been recorded and the command carried on.
FailContinue(e) ==
    /\ exit' = "err"
    /\ error' = e
    /\ pc' = pc
    /\ UNCHANGED << dir, rmFailed >>

\* `?` on an Err: main returns it; locals are dropped on the way out.
Fail(e) ==
    /\ exit' = "err"
    /\ error' = e
    /\ pc' = "exit"
    /\ DropDir

\* tempfile::tempdir()?
MakeTempDir(next) ==
    \/ /\ Fail(<<"io", "tempdir">>)
       /\ UNCHANGED iter
    \/ /\ dir' = "exists"
       /\ pc' = next
       /\ iter' = IF next = "loop" THEN UnionIter(v1_deps, v2_deps) ELSE iter
       /\ UNCHANGED << exit, error, rmFailed >>

-----------------------------------------------------------------------------
(* Cmd::Versions *)

NotYanked(e) == ~e.yanked

VersionsCmd ==
    /\ pc = "start" /\ cmd = "versions"
    /\ \/ /\ Fail(<<"index">>)
          /\ UNCHANGED stdout
       \/ /\ ~krate.found
          /\ Fail(<<"crate", CrateName>>)
          /\ UNCHANGED stdout
       \/ /\ krate.found
          /\ LET live == SelectSeq(krate.versions, NotYanked)
             IN stdout' = [i \in 1..Len(live) |->
                              [dep |-> NoDep, lines |-> Println(<<live[i].version>>)]]
          /\ exit' = "ok" /\ pc' = "exit"
          /\ UNCHANGED << error, dir, rmFailed >>
    /\ UNCHANGED << input, maps, iter, files, diffLog, branchLog >>

-----------------------------------------------------------------------------
(* Cmd::Diff *)

DiffTempDir ==
    /\ pc = "start" /\ cmd = "diff"
    /\ MakeTempDir("fetch1")
    /\ UNCHANGED << input, maps, files, stdout, diffLog, branchLog >>

\* fetch_crate: download, write the archive, extract it with tar.
FetchCrate(at, version, next) ==
    /\ pc = at
    /\ \/ Fail(<<"network", version>>)
       \/ Fail(<<"io", version>>)
       \/ Fail(<<"tar", version>>)
       \/ /\ pc' = next
          /\ UNCHANGED << dir, exit, error, rmFailed >>
    /\ UNCHANGED << input, maps, iter, files, stdout, diffLog, branchLog >>

DiffFetch1 == FetchCrate("fetch1", v1, "fetch2")
DiffFetch2 == FetchCrate("fetch2", v2, "treediff")

\* One line of the tree diff's output, its content left abstract.
TreeDiffLine == <<"d">>

\* What `diff -urw ...` may write for a status: nothing unless trees differ.
TreeDiffOut(status) == IF status = 1 THEN << TreeDiffLine >> ELSE << >>

\* Command::new("diff")....output()?, println!("{}", from_utf8(&diff.stdout)?)
DiffTrees ==
    /\ pc = "treediff"
    /\ \/ /\ Fail(<<"spawn", "diff">>)
          /\ UNCHANGED << stdout, diffLog >>
       \/ \E status \in {0, 1, 2}, utf8 \in BOOLEAN :
            /\ diffLog' = Append(diffLog, [dep |-> NoDep, status |-> status,
                                            stdout |-> TreeDiffOut(status)])
            /\ IF utf8
               THEN /\ stdout' = Append(stdout,
                          [dep |-> NoDep, lines |-> Println(TreeDiffOut(status))])
                    /\ pc' = "close"
                    /\ UNCHANGED << dir, exit, error, rmFailed >>
               ELSE /\ status = 1
                    /\ Fail(<<"utf8">>)
                    /\ UNCHANGED stdout
    /\ UNCHANGED << input, maps, iter, files, branchLog >>

\* dir.close()?: removes the directory and reports a failure to do so.
Close ==
    /\ pc = "close"
    /\ \/ /\ dir' = "removed"
          /\ exit' = "ok" /\ pc' = "exit"
          /\ UNCHANGED << error, rmFailed >>
       \/ /\ rmFailed' = TRUE
          /\ exit' = "err" /\ error' = <<"io", "close">> /\ pc' = "exit"
          /\ UNCHANGED dir
    /\ UNCHANGED << input, maps, iter, files, stdout, diffLog, branchLog >>

-----------------------------------------------------------------------------
(* Cmd::Deps *)

\* Difference, had the set been collected without .difference(..).
DifferenceNone(s, t) == s

\* v2_deps.difference(&v1_deps).collect::<HashSet<_>>()
Difference(s, t) == s \ t

\* The index and version lookups, then the maps and sets built from the
\* two versions' dependency lists.
DepsResolve ==
    /\ pc = "start" /\ cmd = "deps"
    /\ \/ /\ Fail(<<"index">>)
          /\ UNCHANGED maps
       \/ /\ ~krate.found
          /\ Fail(<<"crate", CrateName>>)
          /\ UNCHANGED maps
       \/ /\ krate.found
          /\ LET e1 == Find(krate.versions, v1)
                 e2 == Find(krate.versions, v2)
             IN IF e1 = << >>
                THEN Fail(<<"version", v1>>) /\ UNCHANGED maps
                ELSE IF e2 = << >>
                THEN Fail(<<"version", v2>>) /\ UNCHANGED maps
                ELSE /\ v1_map' = MapOf(e1[1].deps)
                     /\ v2_map' = MapOf(e2[1].deps)
                     /\ v1_deps' = NamesOf(e1[1].deps)
                     /\ v2_deps' = NamesOf(e2[1].deps)
                     /\ added' = Difference(NamesOf(e2[1].deps), NamesOf(e1[1].deps))
                     /\ removed' = Difference(NamesOf(e1[1].deps), NamesOf(e2[1].deps))
                     /\ pc' = "resolved"
                     /\ UNCHANGED << dir, exit, error, rmFailed >>
    /\ UNCHANGED << input, iter, files, stdout, diffLog, branchLog >>

DepsTempDir ==
    /\ pc = "resolved"
    /\ MakeTempDir("loop")
    /\ UNCHANGED << input, maps, files, stdout, diffLog, branchLog >>

\* DiffBlock, had the status test lost its negation.
DiffBlockOnSuccess(out) ==
    IF out.status # 0 THEN << >> ELSE << Println(Skip(out.stdout, SkipCount)) >>

\* What the loop prints for a diff outcome: nothing on success status,
\* else the output's lines after the first three.
DiffBlock(out) ==
    IF out.status = 0 THEN << >> ELSE << Println(Skip(out.stdout, SkipCount)) >>

\* The printed texts, tagged with the dependency they were printed for.
Tagged(dep, blocks) == [i \in 1..Len(blocks) |-> [dep |-> dep, lines |-> blocks[i]]]

Emit(dep, blocks) == stdout' = stdout \o Tagged(dep, blocks)

\* println! of the added branch / of the removed branch.
AddedBlock(d) == Println(PrefixLines("+", Render(d)))
RemovedBlock(d) == Println(PrefixLines("-", Render(d)))

Written(fs, path, text) ==
    [p \in (DOMAIN fs) \cup {path} |-> IF p = path THEN text ELSE fs[p]]

Running == UNCHANGED << dir, exit, error, rmFailed >> /\ pc' = pc

\* One iteration of `for dep in v1_deps.union(&v2_deps)`.  The snapshots
\* are renderings of Rust strings, so from_utf8 on the diff of them succeeds.
DepsStep ==
    /\ pc = "loop" /\ iter # << >>
    /\ LET dep == Head(iter)
           p1 == PathOf(v1)
           p2 == PathOf(v2)
       IN /\ iter' = Tail(iter)
          /\ IF dep \in added
             THEN /\ Emit(dep, << AddedBlock(v2_map[dep]) >>)
                  /\ branchLog' = Append(branchLog, [dep |-> dep, branch |-> "added"])
                  /\ Running
                  /\ UNCHANGED << files, diffLog >>
             ELSE IF dep \in removed
             THEN /\ Emit(dep, << RemovedBlock(v1_map[dep]) >>)
                  /\ branchLog' = Append(branchLog, [dep |-> dep, branch |-> "removed"])
                  /\ Running
                  /\ UNCHANGED << files, diffLog >>
             ELSE /\ branchLog' = Append(branchLog, [dep |-> dep, branch |-> "common"])
                  /\ LET w1 == Written(files, p1, Render(v1_map[dep]))
                         w2 == Written(w1, p2, Render(v2_map[dep]))
                     IN \/ /\ Fail(<<"io", p1>>)
                           /\ UNCHANGED << files, stdout, diffLog >>
                        \/ /\ Fail(<<"io", p2>>)
                           /\ files' = w1
                           /\ UNCHANGED << stdout, diffLog >>
                        \/ /\ Fail(<<"spawn", "diff">>)
                           /\ files' = w2
                           /\ UNCHANGED << stdout, diffLog >>
                        \/ \E out \in {DiffW(p1, p2, w2[p1], w2[p2]), DiffTrouble} :
                             /\ files' = w2
                             /\ diffLog' = Append(diffLog,
                                   [dep |-> dep, status |-> out.status,
                                    stdout |-> out.stdout])
                             /\ Emit(dep, DiffBlock(out))
                             /\ Running
    /\ UNCHANGED << input, maps >>

RECURSIVE LoopOutput(_, _, _)
\* What the loop prints for the names of `order` when no step fails and
\* every diff invocation completes its comparison.
LoopOutput(order, m1, m2) ==
    IF order = << >> THEN << >>
    ELSE LET dep == Head(order)
             p1 == PathOf(v1)
             p2 == PathOf(v2)
             w == Written(Written(<< >>, p1, Render(m1[dep])), p2, Render(m2[dep]))
             blocks ==
                 IF dep \in Difference(DOMAIN m2, DOMAIN m1)
                 THEN << AddedBlock(m2[dep]) >>
                 ELSE IF dep \in Difference(DOMAIN m1, DOMAIN m2)
                 THEN << RemovedBlock(m1[dep]) >>
                 ELSE DiffBlock(DiffW(p1, p2, w[p1], w[p2]))
         IN Tagged(dep, blocks) \o LoopOutput(Tail(order), m1, m2)

\* The whole output of such a `deps` run on the dependency lists l1 and l2.
DepsOutput(l1, l2) ==
    LoopOutput(UnionIter(NamesOf(l1), NamesOf(l2)), MapOf(l1), MapOf(l2))

DepsClose == pc = "loop" /\ iter = << >> /\ pc' = "close" /\
             UNCHANGED << input, maps, iter, dir, files, stdout, exit, error,
                          diffLog, branchLog, rmFailed >>

Next ==
    \/ VersionsCmd
    \/ DiffTempDir
    \/ DiffFetch1
    \/ DiffFetch2
    \/ DiffTrees
    \/ DepsResolve
    \/ DepsTempDir
    \/ DepsStep
    \/ DepsClose
    \/ Close

Spec == Init /\ [][Next]_vars

-----------------------------------------------------------------------------
(* Properties *)

Range(seq) == { seq[i] : i \in 1..Len(seq) }

\* The versions the registry knows for the crate.
Known == { e.version : e \in Range(krate.versions) }

\* The dependency list the registry holds for a known version.
ListOf(v) == Find(krate.versions, v)[1].deps

LoopDone == cmd = "deps" /\ pc = "close"

LoggedDeps == { branchLog[i].dep : i \in 1..Len(branchLog) }

\* C1: in `deps` the names are partitioned: a name takes the added branch
\* exactly when it is in v2's list only, the removed branch exactly when it
\* is in v1's list only, the common branch exactly when it is in both; no
\* name is handled twice, and when the loop is over every name of either
\* list has been handled.
C1_Partition ==
    (cmd = "deps" /\ krate.found /\ {v1, v2} \subseteq Known) =>
        LET A == NamesOf(ListOf(v1))
            B == NamesOf(ListOf(v2))
        IN /\ \A i \in 1..Len(branchLog) :
                LET e == branchLog[i]
                IN /\ e.branch = "added" <=> e.dep \in B \ A
                   /\ e.branch = "removed" <=> e.dep \in A \ B
                   /\ e.branch = "common" <=> e.dep \in A \cap B
           /\ \A i, j \in 1..Len(branchLog) :
                branchLog[i].dep = branchLog[j].dep => i = j
           /\ added \cap removed = {}
           /\ LoopDone => LoggedDeps = A \cup B

\* A finished loop that took all three branches.
C1_Witness ==
    /\ LoopDone
    /\ { branchLog[i].branch : i \in 1..Len(branchLog) } = {"added", "removed", "common"}

Missing(v) == v \notin Known

\* C9: a `deps` run on a v1 or v2 the registry does not list for the crate
\* ends with an error, with no scratch directory ever created, no diff
\* utility run and nothing printed; when the crate itself was found the
\* error names the missing version, v1 if both are missing.
C9_UnknownVersion ==
    (cmd = "deps" /\ (Missing(v1) \/ Missing(v2))) =>
        /\ dir = "none" /\ diffLog = << >> /\ stdout = << >>
        /\ pc \in {"start", "exit"}
        /\ pc = "exit" =>
             /\ exit = "err"
             /\ (krate.found /\ error # <<"index">>) =>
                  error = <<"version", IF Missing(v1) THEN v1 ELSE v2>>

\* Both versions missing: the error names v1.
C9_Witness ==
    /\ cmd = "deps" /\ krate.found /\ v1 # v2
    /\ Missing(v1) /\ Missing(v2)
    /\ exit = "err" /\ error = <<"version", v1>>

-----------------------------------------------------------------------------

\* No diff invocation of the run reported trouble.
NoTrouble == \A i \in 1..Len(diffLog) : diffLog[i].status # 2

BlocksOf(dep) == { i \in 1..Len(stdout) : stdout[i].dep = dep }

HandledCommon(dep) ==
    \E i \in 1..Len(branchLog) :
        branchLog[i].dep = dep /\ branchLog[i].branch = "common"

\* C3: in `deps`, once a name present in both lists with identical v1 and
\* v2 records has been handled, nothing at all (no diff body, no blank
\* line) has been written for it.
C3_IdenticalSilent ==
    cmd = "deps" =>
        \A dep \in LoggedDeps :
            (HandledCommon(dep) /\ v1_map[dep] = v2_map[dep]) => BlocksOf(dep) = {}

IsHeader(line) ==
    \/ IsPrefix(<<"-", "-", "-">>, line)
    \/ IsPrefix(<<"+", "+", "+">>, line)
    \/ IsPrefix(<<"@", "@">>, line)

NotHeader(line) == ~IsHeader(line)

\* C5: in `deps`, whatever the diff utility wrote with a non-success
\* status, what is emitted for that dependency has no `---`, `+++` or `@@`
\* header line and is exactly the utility's output without its header lines.
C5_HeadersStripped ==
    cmd = "deps" =>
        \A i \in 1..Len(diffLog) :
            diffLog[i].status # 0 =>
                \A b \in BlocksOf(diffLog[i].dep) :
                    /\ \A k \in 1..Len(stdout[b].lines) : NotHeader(stdout[b].lines[k])
                    /\ stdout[b].lines = SelectSeq(diffLog[i].stdout, NotHeader)

\* C8: a diff utility status that reports a genuine error (2) makes the
\* command fail: no run in which the utility reported one ends successfully.
C8_TroubleIsError ==
    exit = "ok" => \A i \in 1..Len(diffLog) : diffLog[i].status \in {0, 1}

HasDuplicate(list) ==
    \E i, j \in 1..Len(list) : i # j /\ list[i].name = list[j].name

\* What main() writes to standard error: the error it returns, if any.
Diagnostics == IF exit = "err" THEN {error} ELSE {}

\* C10: when a version's dependency list repeats a name, the record used
\* for that name is the last one listed, and a run that ends has flagged
\* the duplicate on its diagnostic output.  (Stated for runs whose diff
\* invocations all completed, so that a violation owes nothing to C8.)
C10_DuplicateFlagged ==
    (cmd = "deps" /\ krate.found /\ {v1, v2} \subseteq Known /\ NoTrouble
       /\ (HasDuplicate(ListOf(v1)) \/ HasDuplicate(ListOf(v2)))) =>
        /\ \A dep \in DOMAIN v1_map :
             v1_map[dep] = ListOf(v1)[LastIndex(ListOf(v1), dep)]
        /\ \A dep \in DOMAIN v2_map :
             v2_map[dep] = ListOf(v2)[LastIndex(ListOf(v2), dep)]
        /\ pc = "exit" => Diagnostics # {}

-----------------------------------------------------------------------------

\* C6 as stated: once `diff` or `deps` has terminated, on whatever path, the
\* scratch directory it created no longer exists.
C6_NoLeak == exit # "none" => dir # "exists"

\* C6 amended: once the command has terminated the scratch directory it
\* created no longer exists unless removing it was tried and failed; a run
\* that ends successfully never leaves it behind.
C6_RemovedUnlessRemovalFails ==
    exit # "none" =>
        /\ dir = "exists" => (rmFailed /\ exit = "err")
        /\ exit = "ok" => dir # "exists"
        /\ (error # NoError /\ error[1] \in {"network", "tar", "spawn", "utf8"}
              /\ ~rmFailed) => dir = "removed"

\* An error return from inside the deps loop, the directory gone.
C6_Witness ==
    /\ cmd = "deps" /\ exit = "err" /\ error = <<"spawn", "diff">>
    /\ dir = "removed" /\ stdout # << >>

\* C7 as stated: a command that ends with an error has written nothing to
\* standard output.  (Stated for runs whose diff invocations all completed,
\* so that a violation owes nothing to C8.)
C7_NoPartialOutput == (exit = "err" /\ NoTrouble) => stdout = << >>

\* C7 amended: an error ends the command at once, and what was printed
\* before it stays: an error of the deps loop leaves the blocks of the names
\* that sort before the failing one, a failure to remove the scratch
\* directory at the end leaves the whole output, every other error leaves
\* standard output empty.
C7_OutputBeforeError ==
    exit = "err" =>
        /\ pc = "exit"
        /\ IF error = <<"io", "close">>
           THEN /\ iter = << >>
                /\ cmd = "diff" => Len(stdout) = 1
           ELSE IF branchLog # << >>
           THEN LET failing == branchLog[Len(branchLog)].dep
                IN /\ \A i \in 1..Len(stdout) : StrLess(stdout[i].dep, failing)
                   /\ \A i \in 1..Len(branchLog) - 1 :
                        branchLog[i].branch # "common" =>
                            BlocksOf(branchLog[i].dep) # {}
           ELSE stdout = << >>

\* A deps run that failed at a later name after printing an earlier block.
C7_Witness ==
    /\ cmd = "deps" /\ exit = "err" /\ error[1] = "io"
    /\ Len(branchLog) > 1 /\ stdout # << >>

-----------------------------------------------------------------------------

Injective(f) == \A i, j \in DOMAIN f : f[i] = f[j] => i = j

\* The orders a registry may list the records of `list` in.
Perms(list) ==
    { [i \in 1..Len(list) |-> list[f[i]]] :
        f \in { g \in [1..Len(list) -> 1..Len(list)] : Injective(g) } }

\* The pairs of listings of the two versions (one listing if v1 is v2).
Listings ==
    { pp \in Perms(ListOf(v1)) \X Perms(ListOf(v2)) : v1 = v2 => pp[1] = pp[2] }

StrictlyIncreasing ==
    \A i, j \in 1..Len(stdout) : i < j => StrLess(stdout[i].dep, stdout[j].dep)

\* C2 as stated: the blocks of `deps` come in strictly increasing order of
\* name, and the finished output is the one every listing order of the two
\* dependency lists gives.  (Stated for runs whose diff invocations all
\* completed, so that a violation owes nothing to C8.)
C2_AnyListingOrder ==
    (LoopDone /\ NoTrouble) =>
        /\ StrictlyIncreasing
        /\ \A pp \in Listings : stdout = DepsOutput(pp[1], pp[2])

\* C2 amended: the blocks of `deps` come in strictly increasing order of
\* name, one block a name at most, and the finished output is the one given
\* by every listing order that leaves each name's last-listed record the
\* same (so by every order when no list repeats a name).
C2_SortedLastListed ==
    cmd = "deps" =>
        /\ StrictlyIncreasing
        /\ (LoopDone /\ NoTrouble) =>
             \A pp \in Listings :
                 (/\ MapOf(pp[1]) = MapOf(ListOf(v1))
                  /\ MapOf(pp[2]) = MapOf(ListOf(v2)))
                 => stdout = DepsOutput(pp[1], pp[2])

\* A finished run on a v2 list given out of name order, both names printed.
C2_Witness ==
    /\ LoopDone /\ NoTrouble /\ Len(stdout) >= 2
    /\ Len(ListOf(v2)) >= 2
    /\ StrLess(ListOf(v2)[2].name, ListOf(v2)[1].name)

\* The lines of two renderings that differ / differ in more than white space.
Changed(f1, f2) == { i \in 1..Len(f1) : f1[i] # f2[i] }
ChangedW(f1, f2) == { i \in 1..Len(f1) : ~SameLineW(f1[i], f2[i]) }

\* The block shows lines `at` of the old rendering as removed, of the new as added.
Shows(lines, f1, f2, at) ==
    /\ lines # << >> /\ lines # << EmptyLine >>
    /\ \A i \in at : /\ (<<"-">> \o f1[i]) \in Range(lines)
                     /\ (<<"+">> \o f2[i]) \in Range(lines)

\* C4 as stated: for a name in both lists whose records differ in any
\* field, white space included, a non-empty diff block is emitted that holds
\* each changed field's before and after text.  (Stated for diff
\* invocations that completed, so that a violation owes nothing to C8.)
C4_AnyDifferenceShown ==
    cmd = "deps" =>
        \A i \in 1..Len(diffLog) :
            LET dep == diffLog[i].dep
                f1 == Render(v1_map[dep])
                f2 == Render(v2_map[dep])
            IN (diffLog[i].status # 2 /\ v1_map[dep] # v2_map[dep]) =>
                 \E b \in BlocksOf(dep) :
                     Shows(stdout[b].lines, f1, f2, Changed(f1, f2))

\* C4 amended: when the diff utility has completed its comparison for a
\* name in both lists, a non-empty diff block is emitted if the records
\* differ in more than white space, and it holds the before and after text
\* of each field that differs in more than white space; if they differ in
\* white space only, nothing is emitted for the name.
C4_NonWhitespaceDifferenceShown ==
    cmd = "deps" =>
        \A i \in 1..Len(diffLog) :
            LET dep == diffLog[i].dep
                f1 == Render(v1_map[dep])
                f2 == Render(v2_map[dep])
            IN diffLog[i].status # 2 =>
                 IF ChangedW(f1, f2) # {}
                 THEN /\ Cardinality(BlocksOf(dep)) = 1
                      /\ \A b \in BlocksOf(dep) :
                            Shows(stdout[b].lines, f1, f2, ChangedW(f1, f2))
                 ELSE BlocksOf(dep) = {}

\* A block for a record whose kind changed and whose requirement changed in
\* white space only.
C4_Witness ==
    /\ cmd = "deps"
    /\ \E i \in 1..Len(diffLog) :
         LET dep == diffLog[i].dep
         IN /\ diffLog[i].status = 1
            /\ BlocksOf(dep) # {}
            /\ v1_map[dep].req # v2_map[dep].req
            /\ StripWs(v1_map[dep].req) = StripWs(v2_map[dep].req)

====
